---- MODULE Spec2Model ----
(***************************************************************************)
(* Model of packagexml-diff (src/unnamed/part_000) and its helpers         *)
(* (src/utils.js, src/async-fs-utils.js, src/async-line-remove.js,         *)
(* src/log.js): the promise chain that retrieves the package.xml of two    *)
(* orgs, strips the namespacePrefix line, diffs the two texts, optionally  *)
(* saves them and exits.                                                   *)
(*                                                                         *)
(* A text is a sequence of lines.  A line is a record                      *)
(*   [ws |-> leading whitespace present, body |-> the trimmed content,     *)
(*    nl |-> the line is terminated by "\n"]                               *)
(* and only the last line of a file may be unterminated.                   *)
(***************************************************************************)
EXTENDS Integers, Sequences, FiniteSets, TLC

\* Longest manifest (in lines) the orgs return.
MaxLines == 2

Orgs == {1, 2}

\* Bodies of the form <namespacePrefix>ns</namespacePrefix>.
MarkerBodies == {"ns1", "ns2"}

\* The lines a retrieved manifest is made of.
LineKinds ==
  { [ws |-> FALSE, body |-> "a"],
    [ws |-> TRUE,  body |-> "a"],
    [ws |-> FALSE, body |-> "ns1"],
    [ws |-> TRUE,  body |-> "ns2"] }

MkLine(k) == [ws |-> k.ws, body |-> k.body, nl |-> TRUE]

\* All texts of exactly n lines.  A retrieved manifest ends with a line break,
\* so every line is terminated.
RECURSIVE TextsOfLen(_)
TextsOfLen(n) ==
  IF n = 0 THEN { <<>> }
  ELSE { <<MkLine(k)>> \o s : k \in LineKinds, s \in TextsOfLen(n - 1) }

Texts == UNION { TextsOfLen(n) : n \in 0..MaxLines }

NoText == <<[ws |-> FALSE, body |-> "<none>", nl |-> FALSE]>>

----------------------------------------------------------------------------
(* line-number: lineNumber(contents, re)                                   *)

\* re.test(line): the pattern /<namespacePrefix>[-_A-Za-z0-9]+<\/namespacePrefix>/
\* occurs somewhere in the line.
ReTest(line) == line.body \in MarkerBodies

\* contents.split('\n'): the lines without their terminators; a text that ends
\* with "\n" (and the empty text) yields one more, empty, element.
SplitLines(text) ==
  LET stripped == [i \in 1..Len(text) |-> [ws |-> text[i].ws, body |-> text[i].body]]
      empty == [ws |-> FALSE, body |-> ""]
  IN  IF text = <<>> \/ text[Len(text)].nl THEN Append(stripped, empty) ELSE stripped

\* The matches, in order, each with its 1-based line number.
lineNumber(contents) ==
  LET parts == SplitLines(contents)
  IN  SelectSeq([i \in 1..Len(parts) |-> [number |-> i, line |-> parts[i]]],
                LAMBDA m : ReTest(m.line))

----------------------------------------------------------------------------
(* line-replace as called by async-line-remove.js: text '', addNewLine false *)

\* What is written for the line read as number i when `line` is to be replaced.
WriteLineBlank(l, i, line) ==
  IF i = line THEN <<[ws |-> FALSE, body |-> "", nl |-> TRUE]>>
  ELSE <<[l EXCEPT !.nl = TRUE]>>

WriteLine(l, i, line) ==
  IF i = line THEN <<>> ELSE <<[l EXCEPT !.nl = TRUE]>>

RECURSIVE WriteFrom(_, _, _)
WriteFrom(text, i, line) ==
  IF i > Len(text) THEN <<>>
  ELSE WriteLine(text[i], i, line) \o WriteFrom(text, i + 1, line)

\* The file after lineRemove(file, line).
lineRemove(text, line) == WriteFrom(text, 1, line)

----------------------------------------------------------------------------
(* diff.diffTrimmedLines(oldStr, newStr): the line diff with ignoreWhitespace *)

\* lineDiff.tokenize: one token per line, the trimmed line followed by its
\* line break when it has one; removeEmpty drops a token that is the empty string.
Tokenize(text) ==
  LET toks == [i \in 1..Len(text) |-> [body |-> text[i].body, nl |-> text[i].nl]]
  IN  SelectSeq(toks, LAMBDA t : ~(t.body = "" /\ ~t.nl))

Max(a, b) == IF a >= b THEN a ELSE b

RECURSIVE LcsLen(_, _)
LcsLen(o, n) ==
  IF o = <<>> \/ n = <<>> THEN 0
  ELSE IF Head(o) = Head(n) THEN 1 + LcsLen(Tail(o), Tail(n))
  ELSE Max(LcsLen(Tail(o), n), LcsLen(o, Tail(n)))

\* A shortest edit script from o to n: one step per token, tagged common,
\* removed (only in o) or added (only in n); a removal goes first on a tie.
RECURSIVE EditScript(_, _)
EditScript(o, n) ==
  IF o = <<>> THEN [i \in 1..Len(n) |-> [tag |-> "added", tok |-> n[i]]]
  ELSE IF n = <<>> THEN [i \in 1..Len(o) |-> [tag |-> "removed", tok |-> o[i]]]
  ELSE IF Head(o) = Head(n)
    THEN <<[tag |-> "common", tok |-> Head(n)]>> \o EditScript(Tail(o), Tail(n))
  ELSE IF LcsLen(Tail(o), n) >= LcsLen(o, Tail(n))
    THEN <<[tag |-> "removed", tok |-> Head(o)]>> \o EditScript(Tail(o), n)
  ELSE <<[tag |-> "added", tok |-> Head(n)]>> \o EditScript(o, Tail(n))

\* A component as the library builds it.  pushComponent writes the keys added
\* and removed (one of them undefined) on a changed run of tokens;
\* extractCommon writes only count on a common run; buildValues adds value.
\* keys is the set of the component's own property names.
Component(tag, tok) ==
  [ keys    |-> IF tag = "common" THEN {"count", "value"}
                ELSE {"count", "added", "removed", "value"},
    added   |-> tag = "added",
    removed |-> tag = "removed",
    value   |-> <<tok>> ]

SameRun(c, tag) ==
  /\ c.keys = Component(tag, [body |-> "", nl |-> FALSE]).keys
  /\ c.added = (tag = "added")
  /\ c.removed = (tag = "removed")

\* Consecutive steps with the same tag are merged into one component.
RECURSIVE Components(_, _)
Components(script, acc) ==
  IF script = <<>> THEN acc
  ELSE LET s == Head(script)
       IN  IF acc # <<>> /\ SameRun(acc[Len(acc)], s.tag)
           THEN Components(Tail(script),
                  [acc EXCEPT ![Len(acc)].value = Append(@, s.tok)])
           ELSE Components(Tail(script), Append(acc, Component(s.tag, s.tok)))

diffTrimmedLines(oldStr, newStr) ==
  Components(EditScript(Tokenize(oldStr), Tokenize(newStr)), <<>>)

\* part.hasOwnProperty(name)
hasOwnProperty(part, name) == name \in part.keys

----------------------------------------------------------------------------
(* utils.js *)

\* getPackageXMLPath(options, base), relative to base.
getPackageXMLPath(opts) ==
  IF opts.packagexml THEN "unpackaged/package.xml" ELSE "package.xml"

----------------------------------------------------------------------------
(* packagexml-diff: command line *)

SavePolicies == {"never", "diff", "always"}

\* What commandLineArgs returns: the parsed options, or {parseError, parseMessage}
\* when it threw.  org1, org2 and packagexml tell whether a value was supplied.
ParseFailed ==
  [parseError |-> TRUE, help |-> FALSE, org1 |-> FALSE, org2 |-> FALSE,
   packagexml |-> FALSE, savePackagexml |-> "undefined", saveDirExists |-> FALSE]

OptionSets ==
  {ParseFailed} \cup
  [parseError : {FALSE}, help : BOOLEAN, org1 : BOOLEAN, org2 : BOOLEAN,
   packagexml : BOOLEAN, savePackagexml : SavePolicies \cup {"bogus"},
   saveDirExists : BOOLEAN]

argsValid(opts) ==
  IF opts.parseError \/ opts.help THEN FALSE
  ELSE IF ~opts.org1 \/ ~opts.org2 THEN FALSE
  ELSE IF opts.savePackagexml # "undefined" /\ opts.savePackagexml \notin SavePolicies
    THEN FALSE
  ELSE IF ~opts.saveDirExists THEN FALSE
  ELSE TRUE

\* The exit status of the usage branch.
UsageExit == 0

\* The condition of the save stage on the diff result rc.
ShouldSaveAlways(opts, rc) == opts.savePackagexml # "never"

ShouldSave(opts, rc) ==
  \/ (opts.savePackagexml # "undefined" /\ opts.savePackagexml = "always")
  \/ (opts.savePackagexml = "diff" /\ rc = 1)

\* The package name is used whatever was supplied.
RetrieveCmdByName(opts) == "--singlepackage --packagenames"

\* The retrieval flags of the command.
RetrieveCmd(opts) ==
  IF opts.packagexml THEN "--unpackaged" ELSE "--singlepackage --packagenames"

\* Where the external tool puts package.xml in unpackaged.zip for these flags.
ArchiveLayout(cmd) ==
  IF cmd = "--unpackaged" THEN "unpackaged/package.xml" ELSE "package.xml"

----------------------------------------------------------------------------
(* packagexml-diff: the promise chain *)

\* ---------------------------------------------------------------------------
\* utils.js: getTimestamp().  A string is a sequence of one-character strings.

\* An instant of the UTC clock; month is the calendar month, 1 to 12.
Dates ==
  [year : {1999, 2026}, month : 1..12, date : {1, 9, 10, 28},
   hours : {0, 9, 23}, minutes : {0, 59}, seconds : {0, 9, 10, 59}]

\* The instant at which the save stage of the pipeline runs: the last second of
\* a year, so that the next second changes every field.
SaveInstant ==
  [year |-> 2026, month |-> 12, date |-> 31, hours |-> 23, minutes |-> 59,
   seconds |-> 59]

DaysInMonth(y, m) ==
  IF m = 2
  THEN IF (y % 4 = 0 /\ y % 100 # 0) \/ y % 400 = 0 THEN 29 ELSE 28
  ELSE IF m \in {4, 6, 9, 11} THEN 30 ELSE 31

\* The clock one second later.
Tick(d) ==
  IF d.seconds < 59 THEN [d EXCEPT !.seconds = @ + 1]
  ELSE IF d.minutes < 59 THEN [d EXCEPT !.seconds = 0, !.minutes = @ + 1]
  ELSE IF d.hours < 23 THEN [d EXCEPT !.seconds = 0, !.minutes = 0, !.hours = @ + 1]
  ELSE IF d.date < DaysInMonth(d.year, d.month)
       THEN [d EXCEPT !.seconds = 0, !.minutes = 0, !.hours = 0, !.date = @ + 1]
  ELSE IF d.month < 12
       THEN [d EXCEPT !.seconds = 0, !.minutes = 0, !.hours = 0, !.date = 1,
                      !.month = @ + 1]
  ELSE [d EXCEPT !.seconds = 0, !.minutes = 0, !.hours = 0, !.date = 1,
                 !.month = 1, !.year = @ + 1]

\* Date.prototype.getUTCMonth() counts the months from 0.
getUTCMonth(d) == d.month - 1

DigitChars == <<"0", "1", "2", "3", "4", "5", "6", "7", "8", "9">>

\* Number to string, as a template literal converts it.
RECURSIVE ToStr(_)
ToStr(n) ==
  IF n < 10 THEN <<DigitChars[n + 1]>>
  ELSE ToStr(n \div 10) \o <<DigitChars[(n % 10) + 1]>>

\* No padding at all.
padNone(value) == ToStr(value)

\* Line 13: const pad = (value) => (value < 10 ? `0${value}` : value)
pad(value) == IF value < 10 THEN <<"0">> \o ToStr(value) ELSE ToStr(value)

\* Lines 12 and 14: the fields of new Date(), formatted.
getTimestamp(d) ==
  ToStr(d.year) \o <<"-">> \o pad(getUTCMonth(d)) \o <<"-">> \o pad(d.date)
    \o <<"T">> \o pad(d.hours) \o <<":">> \o pad(d.minutes) \o <<":">>
    \o pad(d.seconds) \o <<"Z">>

VARIABLES
  options,      \* the parsed command line
  pc,           \* the handler of the chain that runs next
  lane,         \* per org, the state of the operation of the current stage
  archive,      \* per org, unpackaged.zip in the temp dir: [layout, manifest]
  files,        \* per org, the extracted manifest: [path, text]
  fileContents, \* per org, the result of the latest readFile
  changes,      \* the components diffTrimmedLines returned
  chain,        \* the value the chain carries after the diff: [isArray, rc]
  log,          \* the lines written by the logger
  exitCode,     \* the status passed to the operating system, -1 while running
  started,      \* how often each operation <<stage, org>> was started
  failedAt,     \* the stage whose operation rejected, "none" if none did
  saveDir,      \* the save directory: file name -> text
  dest,         \* per org, the destination file name of the save stage
  written,      \* the orgs whose copy was written
  resolved,     \* the operations <<stage, org>> whose promise has resolved
  faults,       \* what went wrong without a rejection: <<kind, org>>
  now,          \* the clock when the save stage runs
  stamp         \* the latest result of getTimestamp() under SpecTime

vars == <<options, pc, lane, archive, files, fileContents, changes, chain, log,
          exitCode, started, failedAt, saveDir, dest, written, resolved, faults,
          now, stamp>>

clockVars == <<now, stamp>>

Stages == <<"ensure", "tmpdir", "retrieve", "unzip", "read", "strip", "reread", "copy">>

StageNo(s) == CHOOSE i \in 1..Len(Stages) : Stages[i] = s

Ops == { <<Stages[k], i>> : k \in 1..Len(Stages), i \in Orgs }

NoFile == [path |-> "none", text |-> NoText]

NoArchive == [cmd |-> "none", layout |-> "none", manifest |-> NoText]

NoName == <<0, <<>>>>

Idle == [i \in Orgs |-> "idle"]

Info(msg) == [level |-> "INFO", msg |-> msg, value |-> <<>>]

Init ==
  /\ options \in OptionSets
  /\ pc = "args"
  /\ lane = Idle
  /\ archive = [i \in Orgs |-> NoArchive]
  /\ files = [i \in Orgs |-> NoFile]
  /\ fileContents = [i \in Orgs |-> NoText]
  /\ changes = <<>>
  /\ chain = [isArray |-> FALSE, rc |-> -1]
  /\ log = <<>>
  /\ exitCode = -1
  /\ started = [o \in Ops |-> 0]
  /\ failedAt = "none"
  /\ saveDir = <<>>
  /\ dest = [i \in Orgs |-> NoName]
  /\ written = {}
  /\ resolved = {}
  /\ faults = {}
  /\ now = SaveInstant
  /\ stamp = <<>>

\* Both operations of a stage are started by the same handler.
StartStage(s, who) ==
  /\ pc' = s
  /\ lane' = [i \in Orgs |-> IF i \in who THEN "pending" ELSE "idle"]
  /\ started' = [o \in Ops |-> IF o[1] = s /\ o[2] \in who
                                THEN started[o] + 1 ELSE started[o]]

\* One operation of the stage has resolved.
AllDoneAny(s) == pc = s /\ \E i \in Orgs : lane[i] \in {"ok", "idle"}

\* Promise.all of the stage's operations has resolved.
AllDone(s) == pc = s /\ \A i \in Orgs : lane[i] \in {"ok", "idle"}

\* Lines 45-70: the usage branch exits before the chain is built.
Usage ==
  /\ pc = "args"
  /\ ~argsValid(options)
  /\ pc' = "done"
  /\ exitCode' = UsageExit
  /\ options' = [options EXCEPT !.parseError =
                   \/ @
                   \/ (~options.help /\ options.org1 /\ options.org2)]
  /\ log' = Append(log, [level |-> "USAGE", msg |-> "usage", value |-> <<>>])
  /\ UNCHANGED <<lane, archive, files, fileContents, changes, chain, started,
                 failedAt, saveDir, dest, written>>
  /\ UNCHANGED <<resolved, faults, clockVars>>

\* Lines 72-99: the script starts both ensureOrgConnected calls.
Start ==
  /\ pc = "args"
  /\ argsValid(options)
  /\ StartStage("ensure", Orgs)
  /\ log' = Append(log, Info("Using org1 value"))
  /\ UNCHANGED <<options, archive, files, fileContents, changes, chain, exitCode,
                 failedAt, saveDir, dest, written>>
  /\ UNCHANGED <<resolved, faults, clockVars>>

\* The status of the catch handler.
CatchExit == 1

\* The catch handler logs the error and leaves the process running.
CaughtNoExit ==
  /\ log' = Append(log, [level |-> "ERROR", msg |-> "Unable to complete operation",
                         value |-> <<>>])
  /\ exitCode' = exitCode
  /\ pc' = "caught"

\* Lines 221-224, the catch handler of the chain: Logger.prototype.error(msg)
\* prints the message only, then the process exits.
Caught ==
  /\ log' = Append(log, [level |-> "ERROR", msg |-> "Unable to complete operation",
                         value |-> <<>>])
  /\ exitCode' = CatchExit
  /\ pc' = "done"

\* The rejection is swallowed and the stage goes on.
OpFailSwallowed(i) ==
  /\ pc \in {"ensure", "tmpdir", "retrieve", "unzip", "read", "reread", "copy"}
  /\ lane[i] = "pending"
  /\ lane' = [lane EXCEPT ![i] = "ok"]
  /\ failedAt' = pc
  /\ UNCHANGED <<options, pc, archive, files, fileContents, changes, chain, log,
                 exitCode, started, saveDir, dest, written>>
  /\ UNCHANGED <<resolved, faults, clockVars>>

\* An operation of the current stage rejects: Promise.all rejects at once, the
\* chain skips its remaining handlers and runs the catch handler before any
\* other callback.  lineRemove never rejects (its promise only knows resolve).
OpFail(i) ==
  /\ pc \in {"ensure", "tmpdir", "retrieve", "unzip", "read", "reread", "copy"}
  /\ lane[i] = "pending"
  /\ lane' = [lane EXCEPT ![i] = "fail"]
  /\ failedAt' = pc
  /\ Caught
  /\ UNCHANGED <<options, archive, files, fileContents, changes, chain,
                 started, saveDir, dest, written>>
  /\ UNCHANGED <<resolved, faults, clockVars>>

\* ensureOrgConnected() resolves.
EnsureOk(i) ==
  /\ pc = "ensure" /\ lane[i] = "pending"
  /\ lane' = [lane EXCEPT ![i] = "ok"]
  /\ UNCHANGED <<options, pc, archive, files, fileContents, changes, chain, log,
                 exitCode, started, failedAt, saveDir, dest, written>>
  /\ resolved' = resolved \cup {<<pc, i>>}
  /\ UNCHANGED <<faults, clockVars>>

\* Lines 99-105.
ThenTempDirs ==
  /\ AllDone("ensure")
  /\ StartStage("tmpdir", Orgs)
  /\ UNCHANGED <<options, archive, files, fileContents, changes, chain, log,
                 exitCode, failedAt, saveDir, dest, written>>
  /\ UNCHANGED <<resolved, faults, clockVars>>

\* createTempDir() resolves.
TempDirOk(i) ==
  /\ pc = "tmpdir" /\ lane[i] = "pending"
  /\ lane' = [lane EXCEPT ![i] = "ok"]
  /\ UNCHANGED <<options, pc, archive, files, fileContents, changes, chain, log,
                 exitCode, started, failedAt, saveDir, dest, written>>
  /\ resolved' = resolved \cup {<<pc, i>>}
  /\ UNCHANGED <<faults, clockVars>>

\* Lines 106-127.
ThenRetrieve ==
  /\ AllDone("tmpdir")
  /\ StartStage("retrieve", Orgs)
  /\ UNCHANGED <<options, archive, files, fileContents, changes, chain, log,
                 exitCode, failedAt, saveDir, dest, written>>
  /\ UNCHANGED <<resolved, faults, clockVars>>

\* executeSFDXCommand resolves: unpackaged.zip, holding the manifest of org i
\* whatever it is, is in the temp dir.
RetrieveFrom(i, T) ==
  /\ pc = "retrieve" /\ lane[i] = "pending"
  /\ lane' = [lane EXCEPT ![i] = "ok"]
  /\ \E t \in T :
       archive' = [archive EXCEPT ![i] =
                     [cmd |-> RetrieveCmd(options),
                      layout |-> ArchiveLayout(RetrieveCmd(options)),
                      manifest |-> t]]
  /\ UNCHANGED <<options, pc, files, fileContents, changes, chain, log,
                 exitCode, started, failedAt, saveDir, dest, written>>
  /\ resolved' = resolved \cup {<<pc, i>>}
  /\ UNCHANGED <<faults, clockVars>>

RetrieveOk(i) == RetrieveFrom(i, Texts)

\* Lines 129-134.
ThenUnzip ==
  /\ AllDone("retrieve")
  /\ StartStage("unzip", Orgs)
  /\ UNCHANGED <<options, archive, files, fileContents, changes, chain, log,
                 exitCode, failedAt, saveDir, dest, written>>
  /\ UNCHANGED <<resolved, faults, clockVars>>

\* unzipFile resolves: the manifest is extracted where the archive has it.
UnzipOk(i) ==
  /\ pc = "unzip" /\ lane[i] = "pending" /\ archive[i].layout # "none"
  /\ lane' = [lane EXCEPT ![i] = "ok"]
  /\ files' = [files EXCEPT ![i] =
                 [path |-> archive[i].layout, text |-> archive[i].manifest]]
  /\ UNCHANGED <<options, pc, archive, fileContents, changes, chain, log,
                 exitCode, started, failedAt, saveDir, dest, written>>
  /\ resolved' = resolved \cup {<<pc, i>>}
  /\ UNCHANGED <<faults, clockVars>>

\* Lines 136-151: readPackageXmls() is called in both modes.
ThenInspect ==
  /\ AllDone("unzip")
  /\ StartStage("read", Orgs)
  /\ log' = Append(log, Info(IF options.packagexml
                             THEN "Using package.xml so ignoring detection of namespacePrefix"
                             ELSE "Using package name so detect and remove of namespacePrefix if present"))
  /\ UNCHANGED <<options, archive, files, fileContents, changes, chain,
                 exitCode, failedAt, saveDir, dest, written>>
  /\ UNCHANGED <<resolved, faults, clockVars>>

\* readFile(getPackageXMLPath(options, tmpdir)) resolves with the file's text.
ReadOk(i) ==
  /\ pc \in {"read", "reread"} /\ lane[i] = "pending"
  /\ files[i].path = getPackageXMLPath(options)
  /\ lane' = [lane EXCEPT ![i] = "ok"]
  /\ fileContents' = [fileContents EXCEPT ![i] = files[i].text]
  /\ UNCHANGED <<options, pc, archive, files, changes, chain, log,
                 exitCode, started, failedAt, saveDir, dest, written>>
  /\ resolved' = resolved \cup {<<pc, i>>}
  /\ UNCHANGED <<faults, clockVars>>

\* The orgs whose manifest has exactly one matching line.
ToStripAny(contents) == { i \in Orgs : Len(lineNumber(contents[i])) >= 1 }

ToStrip(contents) == { i \in Orgs : Len(lineNumber(contents[i])) = 1 }

\* The explicit-manifest branch of lines 145-148.
SkipStripNever(opts) == FALSE

SkipStrip(opts) == opts.packagexml

\* Lines 152-165: lineRemove is called for each manifest with one match.
ThenStrip ==
  /\ AllDone("read")
  /\ ~SkipStrip(options)
  /\ StartStage("strip", ToStrip(fileContents))
  /\ UNCHANGED <<options, archive, files, fileContents, changes, chain, log,
                 exitCode, failedAt, saveDir, dest, written>>
  /\ UNCHANGED <<resolved, faults, clockVars>>

\* lineRemove(path, number) resolves: the file is rewritten without that line.
StripOk(i) ==
  /\ pc = "strip" /\ lane[i] = "pending"
  /\ files[i].path = getPackageXMLPath(options)
  /\ lane' = [lane EXCEPT ![i] = "ok"]
  /\ files' = [files EXCEPT ![i].text =
                 lineRemove(@, lineNumber(fileContents[i])[1].number)]
  /\ UNCHANGED <<options, pc, archive, fileContents, changes, chain, log,
                 exitCode, started, failedAt, saveDir, dest, written>>
  /\ resolved' = resolved \cup {<<pc, i>>}
  /\ UNCHANGED <<faults, clockVars>>

\* line-replace could not replace the file and reports it in the error field
\* of the object it hands to callback; the callback is resolve, so the promise
\* resolves and the file is as it was.
StripFail(i) ==
  /\ pc = "strip" /\ lane[i] = "pending"
  /\ lane' = [lane EXCEPT ![i] = "ok"]
  /\ resolved' = resolved \cup {<<pc, i>>}
  /\ faults' = faults \cup {<<"lineRemove", i>>}
  /\ UNCHANGED <<options, pc, archive, files, fileContents, changes, chain, log,
                 exitCode, started, failedAt, saveDir, dest, written, clockVars>>

\* The re-read does not wait for the removals.
ThenRereadEarly ==
  /\ pc = "strip"
  /\ StartStage("reread", Orgs)
  /\ UNCHANGED <<options, archive, files, fileContents, changes, chain, log,
                 exitCode, failedAt, saveDir, dest, written>>
  /\ UNCHANGED <<resolved, faults, clockVars>>

\* Lines 166-167.
ThenReread ==
  /\ AllDone("strip")
  /\ StartStage("reread", Orgs)
  /\ UNCHANGED <<options, archive, files, fileContents, changes, chain, log,
                 exitCode, failedAt, saveDir, dest, written>>
  /\ UNCHANGED <<resolved, faults, clockVars>>

\* The filter of line 181.
KeepTruthyAdded(part) == part.added

Keep(part) == hasOwnProperty(part, "changed") \/ hasOwnProperty(part, "added")

filteredChanges(parts) == SelectSeq(parts, Keep)

\* The label of line 193.
Label(part) == IF part.added THEN "ADDED" ELSE "REMOVED"

Report(parts) ==
  IF parts = <<>> THEN <<Info("The files are the same")>>
  ELSE <<Info("!! THERE ARE DIFFERENCES BETWEEN THE FILES !!")>> \o
       [k \in 1..Len(parts) |->
          [level |-> "INFO", msg |-> Label(parts[k]), value |-> parts[k].value]]

\* Lines 175-200: the diff of the texts the previous handler resolved with.
ThenDiff ==
  /\ \/ AllDone("read") /\ SkipStrip(options)
     \/ AllDone("reread")
  /\ changes' = diffTrimmedLines(fileContents[1], fileContents[2])
  /\ chain' = [isArray |-> FALSE,
               rc |-> IF Len(filteredChanges(changes')) # 0 THEN 1 ELSE 0]
  /\ log' = log \o Report(filteredChanges(changes'))
  /\ pc' = "save"
  /\ lane' = Idle
  /\ UNCHANGED <<options, archive, files, fileContents, exitCode, started,
                 failedAt, saveDir, dest, written>>
  /\ UNCHANGED <<resolved, faults, clockVars>>

\* Seconds the clock may advance between the two getTimestamp() calls of the
\* save stage.
Ticks == {0, 1}

Later(d, k) == IF k = 0 THEN d ELSE Tick(d)

\* Lines 207-208 call copyFile(src, dest): force is undefined.
SaveForce == FALSE

\* What a file found in the save directory before the run holds.
PriorText == <<[ws |-> FALSE, body |-> "prior", nl |-> TRUE]>>

\* The destination is replaced whatever force is.
copyFileForced(srcExists, destExists, force) ==
  IF ~srcExists THEN "Source does not exist"
  ELSE IF destExists THEN "replaced"
  ELSE "copied"

\* async-fs-utils.js lines 17-35: the outcome of copyFile(src, dest, force).
copyFile(srcExists, destExists, force) ==
  IF ~srcExists THEN "Source does not exist"
  ELSE IF destExists /\ ~force THEN "Destination exists"
  ELSE IF destExists THEN "replaced"
  ELSE "copied"

\* Lines 202-214: either both copies are started and the chain carries the array
\* [rc, undefined, undefined], or it carries rc.  Each destination name takes
\* its own getTimestamp().
ThenSave ==
  /\ pc = "save"
  /\ IF ShouldSave(options, chain.rc)
     THEN /\ StartStage("copy", Orgs)
          /\ chain' = [chain EXCEPT !.isArray = TRUE]
          /\ \E d \in Ticks :
               dest' = [i \in Orgs |->
                          <<i, getTimestamp(IF i = 1 THEN now ELSE Later(now, d))>>]
          /\ log' = Append(log, Info("Saving compared package.xml files"))
     ELSE /\ pc' = "exit"
          /\ UNCHANGED <<lane, started, chain, dest, log>>
  /\ UNCHANGED <<options, archive, files, fileContents, changes, exitCode,
                 failedAt, saveDir, written>>
  /\ UNCHANGED <<resolved, faults, clockVars>>

\* The copy keeps the manifest as it was retrieved.
CopyOkOriginal(i) ==
  /\ pc = "copy" /\ lane[i] = "pending"
  /\ files[i].path = getPackageXMLPath(options)
  /\ dest[i] \notin DOMAIN saveDir
  /\ copyFile(TRUE, FALSE, SaveForce) = "copied"
  /\ lane' = [lane EXCEPT ![i] = "ok"]
  /\ saveDir' = [n \in DOMAIN saveDir \cup {dest[i]} |->
                   IF n = dest[i] THEN archive[i].manifest ELSE saveDir[n]]
  /\ written' = written \cup {i}
  /\ UNCHANGED <<options, pc, archive, files, fileContents, changes, chain, log,
                 exitCode, started, failedAt, dest>>
  /\ resolved' = resolved \cup {<<pc, i>>}
  /\ UNCHANGED <<faults, clockVars>>

\* copyFile(src, dest) resolves: dest did not exist and now holds the manifest.
CopyOk(i) ==
  /\ pc = "copy" /\ lane[i] = "pending"
  /\ files[i].path = getPackageXMLPath(options)
  /\ dest[i] \notin DOMAIN saveDir
  /\ copyFile(TRUE, FALSE, SaveForce) = "copied"
  /\ lane' = [lane EXCEPT ![i] = "ok"]
  /\ saveDir' = [n \in DOMAIN saveDir \cup {dest[i]} |->
                   IF n = dest[i] THEN files[i].text ELSE saveDir[n]]
  /\ written' = written \cup {i}
  /\ UNCHANGED <<options, pc, archive, files, fileContents, changes, chain, log,
                 exitCode, started, failedAt, dest>>
  /\ resolved' = resolved \cup {<<pc, i>>}
  /\ UNCHANGED <<faults, clockVars>>

\* copyFile(src, dest) finds a file of that name in the save directory, left
\* there by someone else: lines 23-24 reject, Promise.all rejects and the catch
\* handler runs.  (With force the file would be deleted and replaced.)
CopyExisting(i) ==
  /\ pc = "copy" /\ lane[i] = "pending"
  /\ files[i].path = getPackageXMLPath(options)
  /\ dest[i] \notin DOMAIN saveDir
  /\ faults' = faults \cup {<<"destExists", i>>}
  /\ IF copyFile(TRUE, TRUE, SaveForce) = "Destination exists"
     THEN /\ saveDir' = [n \in DOMAIN saveDir \cup {dest[i]} |->
                           IF n = dest[i] THEN PriorText ELSE saveDir[n]]
          /\ lane' = [lane EXCEPT ![i] = "fail"]
          /\ failedAt' = pc
          /\ Caught
          /\ UNCHANGED <<written, resolved>>
     ELSE /\ saveDir' = [n \in DOMAIN saveDir \cup {dest[i]} |->
                           IF n = dest[i] THEN files[i].text ELSE saveDir[n]]
          /\ lane' = [lane EXCEPT ![i] = "ok"]
          /\ written' = written \cup {i}
          /\ resolved' = resolved \cup {<<pc, i>>}
          /\ UNCHANGED <<pc, log, exitCode, failedAt>>
  /\ UNCHANGED <<options, archive, files, fileContents, changes, chain, started,
                 dest, clockVars>>

\* process.exit(code) of the runtime.  An integer is the exit status.  A value
\* that is no integer, here the array [rc, undefined, undefined], is coerced by
\* older runtimes (ToInt32 of "rc,," is 0) and refused with a TypeError by
\* newer ones.
Exited(n) == [kind |-> "exit", status |-> n]

Thrown == [kind |-> "throw", status |-> -1]

ExitOutcomes(v) == IF v.isArray THEN {Exited(0), Thrown} ELSE {Exited(v.rc)}

\* Lines 216-219; a TypeError thrown by process.exit rejects the chain, whose
\* catch handler runs next.
ThenExit ==
  /\ pc = "exit" \/ AllDone("copy")
  /\ \E o \in ExitOutcomes(chain) :
       IF o.kind = "throw"
       THEN /\ failedAt' = "exit"
            /\ Caught
       ELSE /\ pc' = "done"
            /\ exitCode' = o.status
            /\ UNCHANGED <<failedAt, log>>
  /\ UNCHANGED <<options, lane, archive, files, fileContents, changes, chain,
                 started, saveDir, dest, written>>
  /\ UNCHANGED <<resolved, faults, clockVars>>

Next ==
  \/ Usage
  \/ Start
  \/ \E i \in Orgs : OpFail(i)
  \/ \E i \in Orgs : EnsureOk(i)
  \/ ThenTempDirs
  \/ \E i \in Orgs : TempDirOk(i)
  \/ ThenRetrieve
  \/ \E i \in Orgs : RetrieveOk(i)
  \/ ThenUnzip
  \/ \E i \in Orgs : UnzipOk(i)
  \/ ThenInspect
  \/ \E i \in Orgs : ReadOk(i)
  \/ ThenStrip
  \/ \E i \in Orgs : StripOk(i)
  \/ \E i \in Orgs : StripFail(i)
  \/ ThenReread
  \/ ThenDiff
  \/ ThenSave
  \/ \E i \in Orgs : CopyOk(i)
  \/ \E i \in Orgs : CopyExisting(i)
  \/ ThenExit

Spec == Init /\ [][Next]_vars

\* The handlers of the script and of the chain: each runs as soon as the promise
\* it is attached to has resolved, with no external event needed.
Handlers ==
  \/ Usage
  \/ Start
  \/ ThenTempDirs
  \/ ThenRetrieve
  \/ ThenUnzip
  \/ ThenInspect
  \/ ThenStrip
  \/ ThenReread
  \/ ThenDiff
  \/ ThenSave
  \/ ThenExit

\* The manifests of the runs whose end is examined: none, one or two marker
\* lines, which is all the course of a run depends on.
FairTexts ==
  { <<>>,
    <<[ws |-> FALSE, body |-> "a", nl |-> TRUE]>>,
    <<[ws |-> TRUE, body |-> "ns2", nl |-> TRUE]>>,
    <<[ws |-> FALSE, body |-> "ns1", nl |-> TRUE], [ws |-> FALSE, body |-> "a", nl |-> TRUE]>>,
    <<[ws |-> FALSE, body |-> "ns1", nl |-> TRUE], [ws |-> TRUE, body |-> "ns2", nl |-> TRUE]>> }

\* The external operation of org i that is under way completes, with success or
\* with failure.
Completes(i) ==
  \/ OpFail(i)
  \/ EnsureOk(i)
  \/ TempDirOk(i)
  \/ RetrieveFrom(i, FairTexts)
  \/ UnzipOk(i)
  \/ ReadOk(i)
  \/ StripOk(i)
  \/ StripFail(i)
  \/ CopyOk(i)
  \/ CopyExisting(i)

FairNext ==
  \/ Handlers
  \/ \E i \in Orgs : Completes(i)

\* The event loop runs every handler that is ready, and no external operation
\* stays under way for ever.
FairSpec ==
  /\ Init /\ [][FairNext]_vars
  /\ WF_vars(Handlers)
  /\ \A i \in Orgs : WF_vars(Completes(i))

\* getTimestamp() on its own: the clock is at any instant of Dates and the
\* function is called once.
InitTime ==
  /\ options = ParseFailed
  /\ pc = "clock"
  /\ lane = Idle
  /\ archive = [i \in Orgs |-> NoArchive]
  /\ files = [i \in Orgs |-> NoFile]
  /\ fileContents = [i \in Orgs |-> NoText]
  /\ changes = <<>>
  /\ chain = [isArray |-> FALSE, rc |-> -1]
  /\ log = <<>>
  /\ exitCode = -1
  /\ started = [o \in Ops |-> 0]
  /\ failedAt = "none"
  /\ saveDir = <<>>
  /\ dest = [i \in Orgs |-> NoName]
  /\ written = {}
  /\ resolved = {}
  /\ faults = {}
  /\ now \in Dates
  /\ stamp = <<>>

CallGetTimestamp ==
  /\ pc = "clock"
  /\ stamp' = getTimestamp(now)
  /\ pc' = "stamped"
  /\ UNCHANGED <<options, lane, archive, files, fileContents, changes, chain, log,
                 exitCode, started, failedAt, saveDir, dest, written, resolved,
                 faults, now>>

NextTime == CallGetTimestamp

SpecTime == InitTime /\ [][NextTime]_vars

----------------------------------------------------------------------------
(* Properties *)

Done == pc = "done"

\* The diff handler has run.
Diffed == chain.rc # -1

\* An operation of the pipeline rejected.
OpRejected == failedAt \notin {"none", "exit"}

\* The lines of a text, each trimmed of its surrounding whitespace.
Trimmed(text) == [k \in 1..Len(text) |-> text[k].body]

\* The components tagged added or removed.
Changed(parts) == SelectSeq(parts, LAMBDA c : c.added \/ c.removed)

\* The segments the run reported.
Reported == SelectSeq(log, LAMBDA e : e.msg \in {"ADDED", "REMOVED"})

\* The manifest of org i as it was retrieved.
Original(i) == archive[i].manifest

\* The positions of the lines of a text that hold a namespace marker.
MarkerLines(text) == { k \in 1..Len(text) : text[k].body \in MarkerBodies }

\* A text without its line k.
RemoveAt(text, k) == SubSeq(text, 1, k - 1) \o SubSeq(text, k + 1, Len(text))

WithoutMarkers(text) == SelectSeq(text, LAMBDA l : l.body \notin MarkerBodies)

FilesWritten == Cardinality(DOMAIN saveDir)

\* C1 (as claimed): when no operation fails and the two final manifest texts are
\* equal line for line after trimming, no added/removed segment is reported and
\* the process exits with status 0, under every save policy.
C1_IdenticalExitsZero ==
  (Done /\ Diffed /\ ~OpRejected
     /\ Trimmed(fileContents[1]) = Trimmed(fileContents[2]))
  => (Reported = <<>> /\ exitCode = 0)

\* C2 (as claimed): when no operation fails and the two final manifest texts
\* differ in at least one trimmed line, at least one added/removed segment is
\* reported and the process exits with status 1, under every save policy.
C2_DifferentExitsOne ==
  (Done /\ Diffed /\ ~OpRejected
     /\ Trimmed(fileContents[1]) # Trimmed(fileContents[2]))
  => (Reported # <<>> /\ exitCode = 1)

C4_ArgumentErrorExitsOne ==
  (Done /\ \A o \in Ops : started[o] = 0)
  => exitCode = (IF options.help THEN 0 ELSE 1)

\* C5: in a run in which no operation fails, the number of files in the save
\* directory at exit is 0 under never, 2 under always, and under diff 2 when the
\* diff result is 1 and 0 when it is 0; the two files are those of org 1 and org 2.
C5_SavePolicyMatrix ==
  (Done /\ Diffed /\ ~OpRejected) =>
    /\ options.savePackagexml = "never" => FilesWritten = 0
    /\ options.savePackagexml = "always" =>
         FilesWritten = 2 /\ DOMAIN saveDir = {dest[1], dest[2]} /\ written = Orgs
    /\ options.savePackagexml = "diff" =>
         FilesWritten = (IF chain.rc = 1 THEN 2 ELSE 0)

C5_Witness ==
  /\ Done /\ ~OpRejected /\ options.savePackagexml = "diff"
  /\ chain.rc = 1 /\ FilesWritten = 2

\* C6 (as claimed): in package-name mode, when each retrieved manifest has exactly
\* one marker line and the two are equal line for line after trimming apart from
\* it, a run in which no operation fails reports no segment and exits with 0.
C6_NamespaceIgnored ==
  (Done /\ Diffed /\ ~OpRejected /\ ~options.packagexml
     /\ \A i \in Orgs : Cardinality(MarkerLines(Original(i))) = 1
     /\ Trimmed(WithoutMarkers(Original(1))) = Trimmed(WithoutMarkers(Original(2))))
  => (Reported = <<>> /\ exitCode = 0)

\* C7: in explicit-manifest mode no line removal is ever started, every extracted
\* manifest file keeps the retrieved text, and the texts that are diffed are the
\* retrieved texts, marker lines included.
C7_ExplicitModeVerbatim ==
  options.packagexml =>
    \A i \in Orgs :
      /\ started[<<"strip", i>>] = 0
      /\ files[i] # NoFile => files[i].text = Original(i)
      /\ Diffed => fileContents[i] = Original(i)

C7_Witness ==
  /\ options.packagexml /\ Diffed
  /\ \E i \in Orgs : Cardinality(MarkerLines(fileContents[i])) = 1

C9_ZeroOrManyUntouched ==
  ~options.packagexml =>
    /\ \A i \in Orgs :
         (archive[i] # NoArchive /\ Cardinality(MarkerLines(Original(i))) # 1) =>
           /\ started[<<"strip", i>>] = 0
           /\ files[i] # NoFile => files[i].text = Original(i)
           /\ Diffed => fileContents[i] = Original(i)
    /\ (Done /\ ~OpRejected /\ started[<<"ensure", 1>>] > 0) => Diffed

C9_Witness ==
  /\ Done /\ Diffed /\ ~options.packagexml
  /\ Cardinality(MarkerLines(Original(1))) = 2
  /\ Cardinality(MarkerLines(Original(2))) = 0
  /\ Len(Original(2)) > 0

\* C10: the reported segments are exactly the components tagged added or removed,
\* in order: an added one is labelled ADDED, a removed one REMOVED, a common one
\* is not reported; the diff result is 1 exactly when there is such a component.
C10_ReportedIffChanged ==
  Diffed =>
    /\ Len(Reported) = Len(Changed(changes))
    /\ \A k \in 1..Len(Reported) :
         /\ Reported[k].value = Changed(changes)[k].value
         /\ Changed(changes)[k].added => Reported[k].msg = "ADDED"
         /\ Changed(changes)[k].removed => Reported[k].msg = "REMOVED"
    /\ chain.rc = (IF Changed(changes) # <<>> THEN 1 ELSE 0)

C10_Witness ==
  /\ Diffed
  /\ Len(changes) = 3
  /\ \E k \in 1..3 : ~changes[k].added /\ ~changes[k].removed
  /\ \E k \in 1..3 : changes[k].added
  /\ \E k \in 1..3 : changes[k].removed

\* Both operations of stage s have resolved.
Succeeded(s) == \A j \in Orgs : <<s, j>> \in resolved

IsDigit(c) == \E k \in 1..10 : DigitChars[k] = c

DigitValue(c) == (CHOOSE k \in 1..10 : DigitChars[k] = c) - 1

\* The number written in the two characters of s that start at position a.
TwoDigits(s, a) == 10 * DigitValue(s[a]) + DigitValue(s[a + 1])

\* C11: copyFile with a falsy force rejects when the destination exists, and the
\* save stage passes no force: when a destination name of the run was already
\* taken, that file still holds what it held, the run did not write it, and the
\* process has exited with status 1 after the copy stage failed.
C11_ExistingDestinationKept ==
  /\ copyFile(TRUE, TRUE, FALSE) = "Destination exists"
  /\ ~SaveForce
  /\ \A i \in Orgs :
       <<"destExists", i>> \in faults =>
         /\ saveDir[dest[i]] = PriorText
         /\ i \notin written
         /\ Done /\ exitCode = 1 /\ failedAt = "copy"

C11_Witness ==
  /\ Done /\ exitCode = 1
  /\ <<"destExists", 2>> \in faults
  /\ written = {1}

\* C12: getTimestamp() is YYYY-MM-DDTHH:MM:SSZ built from the UTC fields of the
\* clock: 20 characters, every field after the year two digits, the month field
\* the calendar month minus 1, the other fields the clock's values.
C12_TimestampFormat ==
  stamp # <<>> =>
    /\ Len(stamp) = 20
    /\ stamp[5] = "-" /\ stamp[8] = "-" /\ stamp[11] = "T"
    /\ stamp[14] = ":" /\ stamp[17] = ":" /\ stamp[20] = "Z"
    /\ \A k \in {1, 2, 3, 4, 6, 7, 9, 10, 12, 13, 15, 16, 18, 19} : IsDigit(stamp[k])
    /\ 100 * TwoDigits(stamp, 1) + TwoDigits(stamp, 3) = now.year
    /\ TwoDigits(stamp, 6) = now.month - 1
    /\ TwoDigits(stamp, 9) = now.date
    /\ TwoDigits(stamp, 12) = now.hours
    /\ TwoDigits(stamp, 15) = now.minutes
    /\ TwoDigits(stamp, 18) = now.seconds

C12_Witness ==
  /\ stamp # <<>>
  /\ now.month = 1 /\ stamp[6] = "0" /\ stamp[7] = "0"
  /\ now.seconds = 9 /\ stamp[18] = "0" /\ stamp[19] = "9"

\* C13 (as claimed): in a run that reached the diff and in which no operation
\* failed, the exit status is the diff result, whatever the save policy and
\* whether or not the save stage ran.
C13_ExitStatusIsDiffResult ==
  (Done /\ Diffed /\ ~OpRejected) => exitCode = chain.rc

\* C14 (as claimed): once a line removal has failed, no manifest is re-read or
\* diffed, and the process exits with status 1.
C14_RemovalFailureAborts ==
  (\E i \in Orgs : <<"lineRemove", i>> \in faults) =>
    /\ \A j \in Orgs : started[<<"reread", j>>] = 0
    /\ ~Diffed
    /\ Done => exitCode = 1

\* C15: an operation of a stage is started for either org only after both
\* operations of the stage before it have resolved: the temp dirs after both
\* connectivity checks, the retrievals after both temp dirs, the extractions
\* after both retrievals, the reads after both extractions, and the diff after
\* both reads (and both re-reads when there was a re-read).
C15_StageBarrier ==
  /\ \A i \in Orgs :
       /\ started[<<"tmpdir", i>>] > 0 => Succeeded("ensure")
       /\ started[<<"retrieve", i>>] > 0 => Succeeded("ensure") /\ Succeeded("tmpdir")
       /\ started[<<"unzip", i>>] > 0 => Succeeded("retrieve")
       /\ started[<<"read", i>>] > 0 => Succeeded("unzip")
       /\ started[<<"reread", i>>] > 0 => Succeeded("read")
  /\ Diffed =>
       /\ Succeeded("read")
       /\ (\E i \in Orgs : started[<<"reread", i>>] > 0) => Succeeded("reread")

C15_Witness ==
  /\ Diffed /\ ~Done
  /\ Succeeded("ensure") /\ Succeeded("tmpdir") /\ Succeeded("retrieve")
  /\ Succeeded("unzip") /\ Succeeded("read")

\* C16: in package-name mode a re-read is started only when every line removal
\* that was started has completed; the texts that are diffed are those of the
\* re-read, which are the files' contents after the removals, and differ from
\* the first read wherever a removal replaced the file.
C16_RereadAfterRemovals ==
  ~options.packagexml =>
    /\ \A i \in Orgs :
         started[<<"reread", i>>] > 0 =>
           \A j \in Orgs : started[<<"strip", j>>] > 0 => <<"strip", j>> \in resolved
    /\ Diffed =>
         \A i \in Orgs :
           /\ <<"reread", i>> \in resolved
           /\ fileContents[i] = files[i].text
           /\ (started[<<"strip", i>>] > 0 /\ <<"lineRemove", i>> \notin faults)
                => fileContents[i] # Original(i)

C16_Witness ==
  /\ Diffed /\ ~options.packagexml /\ faults = {}
  /\ \A i \in Orgs : <<"strip", i>> \in resolved

\* C17: the retrieval flags, the path the manifest is read from and the
\* stripping all follow the one test of --packagexml: --unpackaged exactly when
\* it was supplied, then the manifest is read from unpackaged/package.xml and no
\* removal or re-read is started; otherwise --singlepackage --packagenames, the
\* manifest is read from package.xml and the strip branch with its re-read runs
\* before the diff.
C17_ModeConsistent ==
  \A i \in Orgs :
    archive[i] # NoArchive =>
      /\ archive[i].cmd \in {"--unpackaged", "--singlepackage --packagenames"}
      /\ archive[i].cmd = "--unpackaged" <=> options.packagexml
      /\ <<"read", i>> \in resolved =>
           files[i].path = (IF archive[i].cmd = "--unpackaged"
                            THEN "unpackaged/package.xml" ELSE "package.xml")
      /\ archive[i].cmd = "--unpackaged" =>
           \A j \in Orgs : started[<<"strip", j>>] = 0 /\ started[<<"reread", j>>] = 0
      /\ (archive[i].cmd # "--unpackaged" /\ Diffed) => Succeeded("reread")

C17_Witness ==
  /\ Diffed /\ options.packagexml
  /\ \A i \in Orgs : archive[i].cmd = "--unpackaged" /\ <<"read", i>> \in resolved

\* C18: a copy of the save stage is started only after the diff result is known,
\* and a file the run has saved holds the text that was diffed for its org; in
\* package-name mode, for a manifest with one marker line whose removal replaced
\* the file, the saved file has no marker line.
C18_SavedIsDiffed ==
  /\ \A i \in Orgs : started[<<"copy", i>>] > 0 => Diffed
  /\ \A i \in written :
       /\ saveDir[dest[i]] = fileContents[i]
       /\ (~options.packagexml /\ Cardinality(MarkerLines(Original(i))) = 1
             /\ <<"lineRemove", i>> \notin faults)
            => MarkerLines(saveDir[dest[i]]) = {}

C18_Witness ==
  /\ written = Orgs /\ ~options.packagexml /\ faults = {}
  /\ Cardinality(MarkerLines(Original(1))) = 1
  /\ Len(saveDir[dest[1]]) = Len(Original(1)) - 1

\* C19 (as claimed): when the process has exited, the run has written either
\* none or both of its two files, never exactly one.
C19_AllOrNothing ==
  Done => Cardinality(written) \in {0, 2}

\* C20 (as claimed): the two destination names of a run carry the same timestamp.
C20_SameTimestamp ==
  (\A i \in Orgs : started[<<"copy", i>>] > 0) => dest[1][2] = dest[2][2]

\* C21: when every external operation that is started completes, with success
\* or with failure, the run reaches its end: the process has exited, with
\* status 0 or 1.
C21_Terminates == <>(Done /\ exitCode \in {0, 1})

\* A run that went through every stage, the save stage included, and exited.
C21_Witness ==
  /\ Done /\ exitCode \in {0, 1}
  /\ ~options.packagexml /\ Succeeded("strip") /\ Succeeded("copy")

====
